---- MODULE Spec2Model ----
(***************************************************************************)
(* Stash -> Plex metadata agent (stashplexagent.py).                       *)
(*                                                                         *)
(* State: the TTL cache (_cache), the monotonic clock, the process-wide    *)
(* configuration (CACHE_TTL, plex_upload_enabled), the set of uploaded     *)
(* posters (_uploaded_posters) and the detached poster-upload jobs.        *)
(*                                                                         *)
(* Conventions.                                                            *)
(*  - A Python str that the code inspects character by character (rating   *)
(*    keys, file names) is a sequence of one-character strings; "NL" is    *)
(*    the newline character.  Other strings are atoms.                     *)
(*  - Python None is the empty sequence None; a present value v is <<v>>.  *)
(*  - A dict whose keys may be absent is a function whose DOMAIN is the    *)
(*    set of keys present.                                                 *)
(*  - JSON received from outside is a tagged record: [t |-> "missing"]     *)
(*    (key absent), [t |-> "null"], or a value record.                     *)
(***************************************************************************)
EXTENDS Integers, Sequences, FiniteSets, Bags, TLC

VARIABLES
    ttl,            \* CACHE_TTL (seconds; <= 0 disables the cache)
    uploadEnabled,  \* plex_upload_enabled
    now,            \* time.monotonic()
    cache,          \* _cache: fingerprint -> [ts, value, orig]
    uploaded,       \* _uploaded_posters
    postOK,         \* history: identifiers whose poster POST returned success
    jobs,           \* bag of detached _upload_poster_to_plex tasks
    last            \* history: what the most recent operation did and returned

vars == <<ttl, uploadEnabled, now, cache, uploaded, postOK, jobs, last>>

\* ------------------------------------------------------------------ bounds
MaxTime == 2
MaxJobs == 2

\* ----------------------------------------------------------------- helpers
None == <<>>

Some(v) == <<v>>

\* dict.pop(key, None) / del on a dict modelled as a function
DictRemove(d, k) == [x \in (DOMAIN d) \ {k} |-> d[x]]

DictPut(d, k, v) == [x \in (DOMAIN d) \cup {k} |-> IF x = k THEN v ELSE d[x]]

EmptyDict == [x \in {} |-> None]

\* ------------------------------------------------------------ the TTL cache
\* _cache_get: [value |-> None or <<doc>>, cache |-> the mapping afterwards]
_cache_get_no_expiry(c, key, t, TTL) ==
    IF TTL <= 0 THEN [value |-> None, cache |-> c]
    ELSE IF key \notin DOMAIN c THEN [value |-> None, cache |-> c]
    ELSE [value |-> Some(c[key].value), cache |-> c]

_cache_get(c, key, t, TTL) ==
    IF TTL <= 0 THEN [value |-> None, cache |-> c]
    ELSE IF key \notin DOMAIN c THEN [value |-> None, cache |-> c]
    ELSE IF t - c[key].ts > TTL
         THEN [value |-> None, cache |-> DictRemove(c, key)]
         ELSE [value |-> Some(c[key].value), cache |-> c]

\* _cache_set; orig is a history field: the document as it was when stored
_cache_set_unconditional(c, key, value, t, TTL) ==
    DictPut(c, key, [ts |-> t, value |-> value, orig |-> value])

_cache_set(c, key, value, t, TTL) ==
    IF TTL > 0
    THEN DictPut(c, key, [ts |-> t, value |-> value, orig |-> value])
    ELSE c

\* ------------------------------------------------------- strings / builders
Digits == {"0", "1", "2", "3", "4", "5", "6", "7", "8", "9"}

\* the literal "stash-video-"
StashVideo == <<"s", "t", "a", "s", "h", "-", "v", "i", "d", "e", "o", "-">>

\* str.replace(ch, rep) on a character sequence
RECURSIVE Replace(_, _, _)
Replace(s, ch, rep) ==
    IF s = <<>> THEN <<>>
    ELSE (IF Head(s) = ch THEN rep ELSE <<Head(s)>>) \o Replace(Tail(s), ch, rep)

\* "BS" backslash, "DQ" double quote, "NL" newline, "CR" carriage return
_sanitize_graphql_string_quotes_first(value) ==
    LET v1 == Replace(value, "DQ", <<"BS", "DQ">>)
        v2 == Replace(v1, "BS", <<"BS", "BS">>)
        v3 == Replace(v2, "NL", <<"BS", "n">>)
        v4 == Replace(v3, "CR", <<"BS", "r">>)
    IN v4

_sanitize_graphql_string(value) ==
    LET v1 == Replace(value, "BS", <<"BS", "BS">>)
        v2 == Replace(v1, "DQ", <<"BS", "DQ">>)
        v3 == Replace(v2, "NL", <<"BS", "n">>)
        v4 == Replace(v3, "CR", <<"BS", "r">>)
    IN v4

\* re.search(r"-(\d+)$", s): group(1) as <<digits>>, or None.  In Python "$"
\* matches at the end of the string and also just before a newline that is
\* the last character of the string.
re_search_dash_digits(s) ==
    LET ends == {Len(s)} \cup
                (IF Len(s) > 0 /\ s[Len(s)] = "NL" THEN {Len(s) - 1} ELSE {})
        matches == {m \in (1..Len(s)) \X ends :
                       /\ m[1] < m[2]
                       /\ s[m[1]] = "-"
                       /\ \A k \in (m[1] + 1)..m[2] : s[k] \in Digits}
    IN IF matches = {} THEN None
       ELSE LET m == CHOOSE x \in matches : \A y \in matches : x[1] <= y[1]
            IN Some(SubSeq(s, m[1] + 1, m[2]))

\* the filter clause of a filename lookup: path INCLUDES "<escaped name>"
FilenameFilter(filename) == <<"path", _sanitize_graphql_string(filename)>>

\* the filter clause of an identifier lookup: id EQUALS <digits>
IdFilter(scene_id) == <<"id", scene_id>>

\* cache_key = f"filter:{filter_clause}"
CacheKey(filter_clause) == <<"filter:">> \o filter_clause

\* ---------------------------------------------------- backend JSON (input)
JMissing == [t |-> "missing"]

JNull == [t |-> "null"]

JObj(f) == [t |-> "obj", f |-> f]

JList(items) == [t |-> "list", items |-> items]

JNum(n) == [t |-> "num", n |-> n]

\* a JSON string holding a decimal number ("25") / holding anything else
JNumStr(n) == [t |-> "numstr", n |-> n]

JStr == [t |-> "str"]

\* dict.get(key, default) applied to the value o; on None (JSON null) or on
\* any non-object the attribute lookup raises
PyGet(o, key, default) ==
    IF o.t # "obj" THEN [raised |-> TRUE, v |-> JNull]
    ELSE IF key \in DOMAIN o.f /\ o.f[key].t # "missing"
         THEN [raised |-> FALSE, v |-> o.f[key]]
         ELSE [raised |-> FALSE, v |-> default]

\* jsondata.get("data", {}).get("findScenes", {}).get("scenes")
ScenesOf(jsondata) ==
    LET d == PyGet(jsondata, "data", JObj(EmptyDict))
        f == IF d.raised THEN d ELSE PyGet(d.v, "findScenes", JObj(EmptyDict))
        z == IF f.raised THEN f ELSE PyGet(f.v, "scenes", JNull)
    IN z

\* ----------------------------------------------------- the scene translator
\* "a or b or ''" over optional strings ("" is falsy)
Truthy(opt) == opt # None /\ opt # Some("")

TitleOf(scene) ==
    IF Truthy(scene.title) THEN scene.title[1]
    ELSE IF Truthy(scene.code) THEN scene.code[1]
    ELSE ""

\* frame rates are in thousandths of a frame per second
AbsDiff(a, b) == IF a >= b THEN a - b ELSE b - a

\* int(fr): truncation toward zero
IntPart(milli) == IF milli >= 0 THEN milli \div 1000 ELSE -((-milli) \div 1000)

PLabel(n) == [n |-> n, suffix |-> "p"]

NamedLabel(name) == [n |-> 0, suffix |-> name]

FrameRateLabel_inclusive(fr) ==
    IF AbsDiff(fr, 23976) <= 500 THEN PLabel(24)
    ELSE IF AbsDiff(fr, 24000) <= 500 THEN PLabel(24)
    ELSE IF AbsDiff(fr, 25000) <= 500 THEN NamedLabel("PAL")
    ELSE IF AbsDiff(fr, 29970) <= 500 THEN NamedLabel("NTSC")
    ELSE IF AbsDiff(fr, 30000) <= 500 THEN PLabel(30)
    ELSE IF AbsDiff(fr, 50000) <= 500 THEN PLabel(50)
    ELSE IF AbsDiff(fr, 59940) <= 500 \/ AbsDiff(fr, 60000) <= 500 THEN PLabel(60)
    ELSE PLabel(IntPart(fr))

FrameRateLabel(fr) ==
    IF AbsDiff(fr, 23976) < 500 THEN PLabel(24)
    ELSE IF AbsDiff(fr, 24000) < 500 THEN PLabel(24)
    ELSE IF AbsDiff(fr, 25000) < 500 THEN NamedLabel("PAL")
    ELSE IF AbsDiff(fr, 29970) < 500 THEN NamedLabel("NTSC")
    ELSE IF AbsDiff(fr, 30000) < 500 THEN PLabel(30)
    ELSE IF AbsDiff(fr, 50000) < 500 THEN PLabel(50)
    ELSE IF AbsDiff(fr, 59940) < 500 \/ AbsDiff(fr, 60000) < 500 THEN PLabel(60)
    ELSE PLabel(IntPart(fr))

\* "if frame_rate:" -- None, 0 and "" are falsy
FrameRateTruthy(fr) ==
    \/ fr.t = "num" /\ fr.n # 0
    \/ fr.t = "numstr"
    \/ fr.t = "str"

\* m.get("seconds", 0)
SecondsOf(marker) == IF marker.seconds.t = "missing" THEN JNum(0) ELSE marker.seconds

\* sorted(markers, key=seconds): stable insertion sort
RECURSIVE InsertMarker(_, _)
InsertMarker(sorted, m) ==
    IF sorted = <<>> THEN <<m>>
    ELSE IF SecondsOf(Head(sorted)).n <= SecondsOf(m).n
         THEN <<Head(sorted)>> \o InsertMarker(Tail(sorted), m)
         ELSE <<m>> \o sorted

RECURSIVE SortMarkers(_)
SortMarkers(ms) ==
    IF ms = <<>> THEN <<>>
    ELSE InsertMarker(SortMarkers(SubSeq(ms, 1, Len(ms) - 1)), ms[Len(ms)])

ChapterTitle(marker) ==
    IF Truthy(marker.title) THEN marker.title[1]
    ELSE IF marker.primary_tag # None THEN marker.primary_tag[1]
    ELSE ""

Chapters(markers) ==
    LET ms == SortMarkers(markers)
    IN [i \in 1..Len(ms) |->
           [tag |-> ChapterTitle(ms[i]), index |-> i,
            startTimeOffset |-> SecondsOf(ms[i]).n * 1000]]

\* the loop body of parse_stash_response for one scene:
\* [raised |-> an exception escaped, item |-> moviedata]
TranslateScene(scene) ==
    LET title == TitleOf(scene)
        code == IF Truthy(scene.code) THEN scene.code[1] ELSE ""
        base == [k \in {"guid", "key", "ratingKey", "type", "title"} |->
                    CASE k = "guid" -> <<"plex://movie/">> \o StashVideo \o scene.id
                      [] k = "key" -> <<"/library/metadata/">> \o StashVideo \o scene.id
                      [] k = "ratingKey" -> StashVideo \o scene.id
                      [] k = "type" -> <<"movie">>
                      [] k = "title" -> <<title>>]
        withTagline == IF code # "" /\ code # title
                       THEN DictPut(base, "tagline", <<code>>) ELSE base
        markers == IF scene.scene_markers = None THEN <<>> ELSE scene.scene_markers[1]
        \* sorting or scaling a null "seconds" raises TypeError
        markerRaises == \E i \in 1..Len(markers) : SecondsOf(markers[i]).t # "num"
        withChapters == IF markers # <<>> /\ ~markerRaises
                        THEN DictPut(withTagline, "Chapter", Chapters(markers))
                        ELSE withTagline
        files == IF scene.files = None THEN <<>> ELSE scene.files[1]
        fr == IF files = <<>> THEN JMissing ELSE files[1].frame_rate
        \* float("abc") raises ValueError
        frRaises == files # <<>> /\ FrameRateTruthy(fr) /\ fr.t = "str"
        withMedia == IF files # <<>> /\ FrameRateTruthy(fr) /\ ~frRaises
                     THEN DictPut(withChapters, "Media",
                                  <<[videoFrameRate |-> FrameRateLabel(fr.n)]>>)
                     ELSE withChapters
    IN [raised |-> markerRaises \/ frRaises, item |-> withMedia]

\* the MediaContainer built from a list of translated items
Container(items) ==
    [offset |-> 0, totalSize |-> Len(items),
     identifier |-> "tv.plex.agents.custom.stash",
     size |-> Len(items), Metadata |-> items]

\* the literal empty envelope the handlers return on a miss
EmptyEnvelope ==
    [offset |-> 0, totalSize |-> 0, identifier |-> "tv.plex.agents.custom.stash",
     size |-> 0, Metadata |-> <<>>]

\* ------------------------------------------- query + translate orchestrator
\* What the backend does with one POST /graphql (input):
\*   kind "transport_error" (connection error, timeout), "http_error"
\*   (raise_for_status), "bad_json" (body is not JSON), "json" (body parsed)
Outcome(kind, json) == [kind |-> kind, json |-> json]

\* the for-loop over scenes: every scene translated, in order
TranslateAll_reversed(scenes) ==
    [i \in 1..Len(scenes) |-> TranslateScene(scenes[Len(scenes) + 1 - i])]

TranslateAll(scenes) == [i \in 1..Len(scenes) |-> TranslateScene(scenes[i])]

\* "if not scenes or len(scenes) == 0: return None"
parse_stash_response_no_empty_check(c, filter_clause, t, TTL, outcome) ==
    LET key == CacheKey(filter_clause)
        g == _cache_get(c, key, t, TTL)
        miss == [result |-> None, raised |-> FALSE, cache |-> g.cache, key |-> key,
                 hit |-> FALSE, queried |-> TRUE, stored |-> FALSE]
    IN IF g.value # None
       THEN [result |-> g.value, raised |-> FALSE, cache |-> g.cache, key |-> key,
             hit |-> TRUE, queried |-> FALSE, stored |-> FALSE]
       ELSE IF outcome.kind # "json" THEN miss
       ELSE LET z == ScenesOf(outcome.json)
            IN IF z.raised THEN [miss EXCEPT !.raised = TRUE]
               ELSE IF z.v.t # "list" THEN miss
               ELSE LET tr == TranslateAll(z.v.items)
                        movie == Container([i \in 1..Len(tr) |-> tr[i].item])
                    IN IF \E i \in 1..Len(tr) : tr[i].raised
                       THEN [miss EXCEPT !.raised = TRUE]
                       ELSE [result |-> Some(movie), raised |-> FALSE,
                             cache |-> _cache_set(g.cache, key, movie, t, TTL),
                             key |-> key, hit |-> FALSE, queried |-> TRUE,
                             stored |-> TTL > 0]

\* parse_stash_response(filter_clause) against cache c at time t:
\*   result: None or <<document>>;  raised: an exception escaped the function
\*   hit / queried / stored: the cache answered / a POST was sent / _cache_set ran
parse_stash_response(c, filter_clause, t, TTL, outcome) ==
    LET key == CacheKey(filter_clause)
        g == _cache_get(c, key, t, TTL)
        miss == [result |-> None, raised |-> FALSE, cache |-> g.cache, key |-> key,
                 hit |-> FALSE, queried |-> TRUE, stored |-> FALSE]
    IN IF g.value # None
       THEN [result |-> g.value, raised |-> FALSE, cache |-> g.cache, key |-> key,
             hit |-> TRUE, queried |-> FALSE, stored |-> FALSE]
       ELSE IF outcome.kind # "json" THEN miss
       ELSE LET z == ScenesOf(outcome.json)
            IN IF z.raised THEN [miss EXCEPT !.raised = TRUE]
               ELSE IF z.v.t # "list" THEN miss
               ELSE IF z.v.items = <<>> THEN miss
               ELSE LET tr == TranslateAll(z.v.items)
                        movie == Container([i \in 1..Len(tr) |-> tr[i].item])
                    IN IF \E i \in 1..Len(tr) : tr[i].raised
                       THEN [miss EXCEPT !.raised = TRUE]
                       ELSE [result |-> Some(movie), raised |-> FALSE,
                             cache |-> _cache_set(g.cache, key, movie, t, TTL),
                             key |-> key, hit |-> FALSE, queried |-> TRUE,
                             stored |-> TTL > 0]

\* the result of a lookup that built no query
NoQuery(c) ==
    [result |-> None, raised |-> FALSE, cache |-> c, key |-> <<>>,
     hit |-> FALSE, queried |-> FALSE, stored |-> FALSE]

query_stash_by_filename(c, filename, t, TTL, outcome) ==
    IF filename = <<>> THEN NoQuery(c)
    ELSE parse_stash_response(c, FilenameFilter(filename), t, TTL, outcome)

query_stash_by_ratingKey(c, ratingKey, t, TTL, outcome) ==
    IF ratingKey = <<>> THEN NoQuery(c)
    ELSE LET match == re_search_dash_digits(ratingKey)
         IN IF match = None THEN NoQuery(c)
            ELSE parse_stash_response(c, IdFilter(match[1]), t, TTL, outcome)

\* --------------------------------------------------------- excludeElements
\* raw.split(","): the pieces between "," tokens
RECURSIVE SplitComma(_, _)
SplitComma(raw, cur) ==
    IF raw = <<>> THEN <<cur>>
    ELSE IF Head(raw) = "," THEN <<cur>> \o SplitComma(Tail(raw), <<>>)
    ELSE SplitComma(Tail(raw), Append(cur, Head(raw)))

\* str.strip(): "SP" is a whitespace character
RECURSIVE LStrip(_)
LStrip(piece) ==
    IF piece # <<>> /\ Head(piece) = "SP" THEN LStrip(Tail(piece)) ELSE piece

RECURSIVE RStrip(_)
RStrip(piece) ==
    IF piece # <<>> /\ piece[Len(piece)] = "SP"
    THEN RStrip(SubSeq(piece, 1, Len(piece) - 1)) ELSE piece

Strip(piece) == RStrip(LStrip(piece))

\* {e.strip() for e in (body.get("excludeElements") or "").split(",") if e.strip()}
ExcludeElements(rawOpt) ==
    LET raw == IF rawOpt = None THEN <<>> ELSE rawOpt[1]
        pieces == SplitComma(raw, <<>>)
    IN {Strip(pieces[i]) : i \in {k \in 1..Len(pieces) : Strip(pieces[k]) # <<>>}}

\* for element in exclude_elements: item.pop(element, None)
\* (an element names a field when it is exactly that field's name)
PopAll(item, elements) ==
    [k \in {x \in DOMAIN item : <<x>> \notin elements} |-> item[k]]

StripDocument(doc, elements) ==
    [doc EXCEPT !.Metadata = [i \in 1..Len(doc.Metadata) |->
                                 PopAll(doc.Metadata[i], elements)]]

\* ------------------------------------------------------ upload job records
\* One detached _upload_poster_to_plex(scene_id, title) task.
\*   pc: "Queued" (added by add_task, not started), then the code position;
\*       "Skip", "Done", "Failed" are terminal
\*   log: history of the outbound calls and sleeps the task has made
\*   resp: history, the response of the request that enqueued the task
\*   inRecord: history, scene_id was in _uploaded_posters when the task checked
NewJob(scene_id, title, resp) ==
    [id |-> scene_id, title |-> title, pc |-> "Queued", section_keys |-> <<>>,
     pms_key |-> None, attempt |-> 0, log |-> <<>>, resp |-> resp,
     inRecord |-> FALSE]

\* background_tasks.add_task(_upload_poster_to_plex, scene_id, title): the task
\* runs after the response has been sent
add_task_run_inline(js, scene_id, title, resp) ==
    js (+) SetToBag({[NewJob(scene_id, title, resp) EXCEPT !.pc = "Locating"]})

add_task(js, scene_id, title, resp) ==
    js (+) SetToBag({NewJob(scene_id, title, resp)})

\* ------------------------------------------------------------ the handlers
NoLast ==
    [op |-> "none", arg |-> <<>>, status |-> "none", body |-> None, key |-> <<>>,
     hit |-> FALSE, queried |-> FALSE, stored |-> FALSE, enq |-> <<>>,
     scenes |-> None, exclude |-> None]

\* history of one request: key is the fingerprint looked up (<<>> when the
\* cache was not consulted), hit / queried / stored as in parse_stash_response,
\* enq the tasks handed to add_task, scenes the ids of the scenes the backend
\* returned to this request and exclude the request's excludeElements (both
\* filled in by the request actions).
\* the handler's response: "doc" (a MediaContainer with items), "empty" (the
\* empty envelope) or "fault" (an exception escaped the handler: HTTP 500)
Respond(op, arg, r, status, body, enq) ==
    [op |-> op, arg |-> arg, status |-> status, body |-> body, key |-> r.key,
     hit |-> r.hit, queried |-> r.queried, stored |-> r.stored, enq |-> enq,
     scenes |-> None, exclude |-> None]

\* the response of library_metadata_matches for lookup result r.  result is
\* the very dict the cache holds (returned by _cache_get, or just passed to
\* _cache_set), so item.pop acts on the cached entry as well.
MatchesResponse(filename, r, stripped) ==
    IF r.raised
    THEN [cache |-> r.cache, last |-> Respond("matches", filename, r, "fault", None, <<>>)]
    ELSE IF r.result = None
    THEN [cache |-> r.cache,
          last |-> Respond("matches", filename, r, "empty", Some(EmptyEnvelope), <<>>)]
    ELSE [cache |-> IF (r.hit \/ r.stored) /\ r.key \in DOMAIN r.cache
                    THEN [r.cache EXCEPT ![r.key].value = stripped]
                    ELSE r.cache,
          last |-> Respond("matches", filename, r, "doc", Some(stripped), <<>>)]

\* "for item in ...: for element in exclude_elements: item.pop(element, None)"
Stripped(result, exclude_elements) ==
    IF exclude_elements # {} THEN StripDocument(result, exclude_elements) ELSE result

\* the handler once the lookup has returned r
MatchesOf(filename, r, exclude_elements) ==
    MatchesResponse(filename, r,
        Stripped(IF r.result = None THEN EmptyEnvelope ELSE r.result[1],
                 exclude_elements))

\* POST /library/metadata/matches
library_metadata_matches(c, filename, rawExclude, t, TTL, outcome) ==
    MatchesOf(filename, query_stash_by_filename(c, filename, t, TTL, outcome),
              ExcludeElements(rawExclude))

\* the (scene_id, title) get_metadata passes to add_task for a result, as a
\* sequence of zero or one task descriptors
TasksFor(ratingKey, result) ==
    LET metadata_list == result[1].Metadata
    IN IF metadata_list = <<>> THEN <<>>
       ELSE LET title == IF "title" \in DOMAIN metadata_list[1]
                         THEN metadata_list[1]["title"][1] ELSE ""
                match == re_search_dash_digits(ratingKey)
            IN IF match # None /\ title # ""
               THEN <<[id |-> match[1], title |-> title]>>
               ELSE <<>>

TasksToAdd_ignoring_enabled(ratingKey, result, enabled) ==
    IF result = None THEN <<>> ELSE TasksFor(ratingKey, result)

\* "if result and plex_upload_enabled:"
TasksToAdd(ratingKey, result, enabled) ==
    IF result = None \/ ~enabled THEN <<>> ELSE TasksFor(ratingKey, result)

\* the response of get_metadata for lookup result r, with the tasks it adds
MetadataResponse(ratingKey, r, enq) ==
    IF r.raised
    THEN [cache |-> r.cache, last |-> Respond("metadata", ratingKey, r, "fault", None, <<>>)]
    ELSE IF r.result = None
    THEN [cache |-> r.cache,
          last |-> Respond("metadata", ratingKey, r, "empty", Some(EmptyEnvelope), <<>>)]
    ELSE [cache |-> r.cache,
          last |-> Respond("metadata", ratingKey, r, "doc", r.result, enq)]

\* the handler once the lookup has returned r
MetadataOf(ratingKey, r, enabled) ==
    MetadataResponse(ratingKey, r, TasksToAdd(ratingKey, r.result, enabled))

\* GET /library/metadata/{ratingKey}
get_metadata(c, ratingKey, t, TTL, enabled, outcome) ==
    MetadataOf(ratingKey, query_stash_by_ratingKey(c, ratingKey, t, TTL, outcome), enabled)

\* ------------------------------------------------------------------ inputs
K42 == StashVideo \o <<"4", "2">>

NotAVideo == <<"n", "o", "t", "-", "a", "-", "v", "i", "d", "e", "o">>

\* rating keys a request may carry: empty, no digit suffix, digits without a
\* dash, a well-formed key, and a key with a newline after the digits
RatingKeys == {<<>>, NotAVideo, <<"4", "2">>, K42, K42 \o <<"NL">>}

ClipName == <<"c", "l", "i", "p">>

Filenames == {<<>>, ClipName}

\* the excludeElements field: absent, blank pieces only, two padded names,
\* one name
ExcludeInputs ==
    {None, Some(<<"SP", ",">>), Some(<<"title", ",", "SP", "Media", "SP">>),
     Some(<<"Chapter">>)}

Marker(seconds) == [title |-> None, primary_tag |-> Some("Intro"), seconds |-> seconds]

File(frame_rate) == [frame_rate |-> frame_rate]

\* scene 42: titled, one file at 25 fps
Scene42 ==
    [id |-> <<"4", "2">>, title |-> Some("Sample"), code |-> None,
     scene_markers |-> None, files |-> Some(<<File(JNum(25000))>>)]

\* scene 7: no title and no code, one marker without "seconds", no file
Scene7 ==
    [id |-> <<"7">>, title |-> None, code |-> None,
     scene_markers |-> Some(<<Marker(JMissing)>>), files |-> None]

\* a file whose frame_rate is a non-numeric string
SceneBadFrameRate == [Scene42 EXCEPT !.files = Some(<<File(JStr)>>)]

\* a marker whose "seconds" is null
SceneNullSeconds == [Scene7 EXCEPT !.scene_markers = Some(<<Marker(JNull)>>)]

Body(scenes) ==
    JObj([k \in {"data"} |->
        JObj([k2 \in {"findScenes"} |-> JObj([k3 \in {"scenes"} |-> scenes])])])

\* responses that yield a document
GoodOutcomes ==
    {Outcome("json", Body(JList(ss))) : ss \in {<<Scene42>>, <<Scene7, Scene42>>}}

\* responses that yield no document
MissOutcomes ==
    {Outcome(k, JNull) : k \in {"transport_error", "http_error", "bad_json"}}
    \cup {Outcome("json", j) : j \in
            {JObj(EmptyDict),
             JObj([k \in {"data"} |-> JObj(EmptyDict)]),
             JObj([k \in {"data"} |-> JObj([k2 \in {"findScenes"} |-> JObj(EmptyDict)])]),
             Body(JNull), Body(JList(<<>>))}}

\* responses with null containers or unparseable optional fields
OddOutcomes ==
    {Outcome("json", j) : j \in
        {JNull,
         JObj([k \in {"data"} |-> JNull]),
         JObj([k \in {"data"} |-> JObj([k2 \in {"findScenes"} |-> JNull])]),
         Body(JList(<<SceneBadFrameRate>>)),
         Body(JList(<<Scene42, SceneNullSeconds>>))}}

Outcomes == GoodOutcomes \cup MissOutcomes \cup OddOutcomes

\* ------------------------------------------------------------------- Init
\* module import: empty cache, no uploads, no tasks; the configuration is read
\* once (CACHE_TTL, plex_upload_enabled)
Init ==
    /\ ttl \in {-1, 0, 1}
    /\ uploadEnabled \in BOOLEAN
    /\ now = 0
    /\ cache = EmptyDict
    /\ uploaded = {}
    /\ postOK = {}
    /\ jobs = EmptyBag
    /\ last = NoLast

\* ---------------------------------------------------------------- actions
\* time.monotonic() advances
Tick ==
    /\ now < MaxTime
    /\ now' = now + 1
    /\ UNCHANGED <<ttl, uploadEnabled, cache, uploaded, postOK, jobs, last>>

\* the backend answers only when a POST is sent to it
NoOutcome == Outcome("none", JNull)

BackendAnswers(queried, outcomes) == IF queried THEN outcomes ELSE {NoOutcome}

\* history: <<the ids of the scenes in data.findScenes.scenes, in order>> when
\* the backend answered this request with a body holding such a list, else None
ScenesReturned(o) ==
    IF o.kind # "json" \/ o.json.t # "obj" \/ "data" \notin DOMAIN o.json.f
    THEN None
    ELSE LET data == o.json.f["data"]
         IN IF data.t # "obj" \/ "findScenes" \notin DOMAIN data.f THEN None
            ELSE LET findScenes == data.f["findScenes"]
                 IN IF findScenes.t # "obj" \/ "scenes" \notin DOMAIN findScenes.f
                    THEN None
                    ELSE IF findScenes.f["scenes"].t # "list" THEN None
                    ELSE Some([i \in 1..Len(findScenes.f["scenes"].items) |->
                                 findScenes.f["scenes"].items[i].id])

\* the handler's effect e on the state: the cache and the response
MatchesEffect(e, o, raw) ==
    /\ cache' = e.cache
    /\ last' = [e.last EXCEPT !.scenes = ScenesReturned(o), !.exclude = raw]
    /\ UNCHANGED <<ttl, uploadEnabled, now, uploaded, postOK, jobs>>

MatchesRequest ==
    \E filename \in Filenames, raw \in ExcludeInputs :
      \E o \in BackendAnswers(
                 query_stash_by_filename(cache, filename, now, ttl, NoOutcome).queried,
                 Outcomes) :
        MatchesEffect(library_metadata_matches(cache, filename, raw, now, ttl, o), o, raw)

\* the handler's effect e on the state: the cache as the lookup left it, the
\* response, and the task handed to add_task
MetadataEffect(e, o) ==
    /\ BagCardinality(jobs) + Len(e.last.enq) <= MaxJobs
    /\ cache' = e.cache
    /\ last' = [e.last EXCEPT !.scenes = ScenesReturned(o)]
    /\ jobs' = IF e.last.enq = <<>> THEN jobs
               ELSE add_task(jobs, e.last.enq[1].id, e.last.enq[1].title, e.last.body)
    /\ UNCHANGED <<ttl, uploadEnabled, now, uploaded, postOK>>

MetadataRequest(keys, outcomes) ==
    \E ratingKey \in keys :
      \E o \in BackendAnswers(
                 query_stash_by_ratingKey(cache, ratingKey, now, ttl, NoOutcome).queried,
                 outcomes) :
        MetadataEffect(get_metadata(cache, ratingKey, now, ttl, uploadEnabled, o), o)

GetMetadata == MetadataRequest(RatingKeys, Outcomes)

\* the lookup handlers, the cache and the clock; enqueued tasks are not run
Next == MatchesRequest \/ GetMetadata \/ Tick

Spec == Init /\ [][Next]_vars

\* ------------------------------------------------------ the upload task
\* Program constants of the ingest-wait loop
SLEEP_SECONDS == 5

RETRY_ATTEMPTS == 8

Ev(name, n) == [ev |-> name, n |-> n]

Logged(j, e) == [j EXCEPT !.log = Append(j.log, e)]

\* guid = f"plex://movie/stash-video-{scene_id}"
GuidOf(scene_id) == <<"plex://movie/">> \o StashVideo \o scene_id

\* "if scene_id in _uploaded_posters: return"
StartJob_without_check(j, record) ==
    [j EXCEPT !.pc = "Locating", !.inRecord = j.id \in record]

StartJob(j, record) ==
    IF j.id \in record
    THEN [j EXCEPT !.pc = "Skip", !.inRecord = TRUE]
    ELSE [j EXCEPT !.pc = "Locating"]

\* _get_pms_movie_section_keys on the answer to GET /library/sections:
\* [ok |-> the request returned parseable JSON, Directory |-> its entries]
_get_pms_movie_section_keys(answer) ==
    IF ~answer.ok THEN <<>>
    ELSE LET movies == SelectSeq(answer.Directory, LAMBDA d : d.type = "movie")
         IN [i \in 1..Len(movies) |-> movies[i].key]

LocateStep_searching_anyway(j, answer) ==
    [Logged(j, Ev("sections", 0)) EXCEPT
        !.section_keys = _get_pms_movie_section_keys(answer), !.pc = "Search"]

LocateStep(j, answer) ==
    LET section_keys == _get_pms_movie_section_keys(answer)
        j1 == Logged(j, Ev("sections", 0))
    IN IF section_keys = <<>> THEN [j1 EXCEPT !.pc = "Failed"]
       ELSE [j1 EXCEPT !.section_keys = section_keys, !.pc = "Search"]

\* an item matches when its guid, or the id of one of its Guid entries, is guid
ItemMatches_by_title(item, guid) == TRUE

ItemMatches(item, guid) ==
    \/ item.guid = guid
    \/ \E i \in 1..Len(item.Guid) : item.Guid[i] = guid

\* the inner loop over one section's items: <<ratingKey of the first
\* matching item>> (that ratingKey is None when the item has none), or <<>>
RECURSIVE FirstMatch(_, _)
FirstMatch(items, guid) ==
    IF items = <<>> THEN <<>>
    ELSE IF ItemMatches(Head(items), guid) THEN <<Head(items).ratingKey>>
    ELSE FirstMatch(Tail(items), guid)

RECURSIVE _search_pms_sections_stopping_at_failure(_, _, _)
_search_pms_sections_stopping_at_failure(section_keys, library, guid) ==
    IF section_keys = <<>> THEN None
    ELSE LET answer == library[Head(section_keys)]
             m == IF answer.ok THEN FirstMatch(answer.items, guid) ELSE <<>>
         IN IF ~answer.ok THEN None
            ELSE IF m # <<>> THEN m[1]
            ELSE _search_pms_sections_stopping_at_failure(
                     Tail(section_keys), library, guid)

\* _search_pms_sections: library[key] is the answer of section key to the
\* title search, [ok |-> the request succeeded, items |-> its Metadata];
\* a failed section is logged and skipped
RECURSIVE _search_pms_sections(_, _, _)
_search_pms_sections(section_keys, library, guid) ==
    IF section_keys = <<>> THEN None
    ELSE LET answer == library[Head(section_keys)]
             m == IF answer.ok THEN FirstMatch(answer.items, guid) ELSE <<>>
         IN IF m # <<>> THEN m[1]
            ELSE _search_pms_sections(Tail(section_keys), library, guid)

\* the immediate search ("Try immediately -- item already exists for refreshes")
SearchStep_waiting_anyway(j, library) ==
    LET pms_key == _search_pms_sections(j.section_keys, library, GuidOf(j.id))
    IN IF pms_key # None
       THEN [Logged(j, Ev("search_hit", 0)) EXCEPT
                !.pms_key = pms_key, !.pc = "Sleep", !.attempt = 0]
       ELSE [Logged(j, Ev("search_miss", 0)) EXCEPT !.pc = "Sleep", !.attempt = 0]

SearchStep(j, library) ==
    LET pms_key == _search_pms_sections(j.section_keys, library, GuidOf(j.id))
    IN IF pms_key # None
       THEN [Logged(j, Ev("search_hit", 0)) EXCEPT !.pms_key = pms_key, !.pc = "Render"]
       ELSE [Logged(j, Ev("search_miss", 0)) EXCEPT !.pc = "Sleep", !.attempt = 0]

\* time.sleep(5), before attempt j.attempt of the retry loop
SleepStep_twice_as_long(j) ==
    [Logged(j, Ev("sleep", 2 * SLEEP_SECONDS)) EXCEPT !.pc = "Retry"]

SleepStep(j) ==
    [Logged(j, Ev("sleep", SLEEP_SECONDS)) EXCEPT !.pc = "Retry"]

\* one pass of "for attempt in range(8)": search, break when found, sleep
\* again unless this was the last attempt; after the loop "if not pms_key"
RetryStep_one_attempt_more(j, library) ==
    LET pms_key == _search_pms_sections(j.section_keys, library, GuidOf(j.id))
    IN IF pms_key # None
       THEN [Logged(j, Ev("search_hit", 0)) EXCEPT !.pms_key = pms_key, !.pc = "Render"]
       ELSE IF j.attempt < RETRY_ATTEMPTS
       THEN [Logged(j, Ev("search_miss", 0)) EXCEPT
                !.pc = "Sleep", !.attempt = j.attempt + 1]
       ELSE [Logged(j, Ev("search_miss", 0)) EXCEPT !.pc = "Failed"]

RetryStep_starting_over(j, library) ==
    LET pms_key == _search_pms_sections(j.section_keys, library, GuidOf(j.id))
    IN IF pms_key # None
       THEN [Logged(j, Ev("search_hit", 0)) EXCEPT !.pms_key = pms_key, !.pc = "Render"]
       ELSE IF j.attempt < RETRY_ATTEMPTS - 1
       THEN [Logged(j, Ev("search_miss", 0)) EXCEPT
                !.pc = "Sleep", !.attempt = j.attempt + 1]
       ELSE [j EXCEPT !.pc = "Search", !.attempt = 0, !.log = <<Ev("sections", 0)>>]

RetryStep(j, library) ==
    LET pms_key == _search_pms_sections(j.section_keys, library, GuidOf(j.id))
    IN IF pms_key # None
       THEN [Logged(j, Ev("search_hit", 0)) EXCEPT !.pms_key = pms_key, !.pc = "Render"]
       ELSE IF j.attempt < RETRY_ATTEMPTS - 1
       THEN [Logged(j, Ev("search_miss", 0)) EXCEPT
                !.pc = "Sleep", !.attempt = j.attempt + 1]
       ELSE [Logged(j, Ev("search_miss", 0)) EXCEPT !.pc = "Failed"]

\* _generate_poster_bytes: GET the screenshot, then decode, scale and encode;
\* outcome "fetch_error", "image_error" or "ok"
RenderStep_retrying(j, outcome) ==
    IF outcome = "ok"
    THEN [Logged(j, Ev("screenshot", 0)) EXCEPT !.pc = "Post"]
    ELSE [Logged(j, Ev("screenshot", 0)) EXCEPT !.pc = "Render"]

RenderStep(j, outcome) ==
    IF outcome = "ok"
    THEN [Logged(j, Ev("screenshot", 0)) EXCEPT !.pc = "Post"]
    ELSE [Logged(j, Ev("screenshot", 0)) EXCEPT !.pc = "Failed"]

\* POST /library/metadata/{pms_key}/posters and raise_for_status
PostStep_ignoring_status(j, ok) ==
    [Logged(j, Ev("post", 0)) EXCEPT !.pc = "Record"]

PostStep(j, ok) ==
    IF ok THEN [Logged(j, Ev("post", 0)) EXCEPT !.pc = "Record"]
    ELSE [Logged(j, Ev("post", 0)) EXCEPT !.pc = "Failed"]

\* _uploaded_posters.add(scene_id)
RecordStep(j) == [Logged(j, Ev("add", 0)) EXCEPT !.pc = "Done"]

\* ------------------------------------------------- the cache on its own
\* _cache_get and _cache_set called directly, with the clock running.
\* last.puts is history: per key, the time and value of the latest _cache_set
\* made while caching is enabled.
CacheKeys == {CacheKey(FilenameFilter(ClipName)), CacheKey(IdFilter(<<"4", "2">>))}

CacheDocs == {Container(<<TranslateScene(sc).item>>) : sc \in {Scene42, Scene7}}

InitCache ==
    /\ ttl \in {0, 1, 2}
    /\ uploadEnabled = FALSE
    /\ now = 0
    /\ cache = EmptyDict
    /\ uploaded = {}
    /\ postOK = {}
    /\ jobs = EmptyBag
    /\ last = [op |-> "none", key |-> <<>>, at |-> 0, value |-> None, puts |-> EmptyDict]

CachePut ==
    \E key \in CacheKeys, d \in CacheDocs :
        /\ cache' = _cache_set(cache, key, d, now, ttl)
        /\ last' = [op |-> "set", key |-> key, at |-> now, value |-> Some(d),
                    puts |-> IF ttl > 0
                             THEN DictPut(last.puts, key, [ts |-> now, value |-> d])
                             ELSE last.puts]
        /\ UNCHANGED <<ttl, uploadEnabled, now, uploaded, postOK, jobs>>

CacheGet ==
    \E key \in CacheKeys :
        LET g == _cache_get(cache, key, now, ttl)
        IN /\ cache' = g.cache
           /\ last' = [op |-> "get", key |-> key, at |-> now, value |-> g.value,
                       puts |-> last.puts]
           /\ UNCHANGED <<ttl, uploadEnabled, now, uploaded, postOK, jobs>>

NextCache == CachePut \/ CacheGet \/ Tick

SpecCache == InitCache /\ [][NextCache]_vars

\* ------------------------------------------- the downstream server (input)
SectionsAnswers ==
    {[ok |-> FALSE, Directory |-> <<>>],
     [ok |-> TRUE, Directory |-> <<>>],
     [ok |-> TRUE, Directory |-> <<[type |-> "show", key |-> "3"]>>],
     [ok |-> TRUE, Directory |-> <<[type |-> "movie", key |-> "1"],
                                   [type |-> "show", key |-> "3"],
                                   [type |-> "movie", key |-> "2"]>>]}

SectionOk(items) == [ok |-> TRUE, items |-> items]

SectionError == [ok |-> FALSE, items |-> <<>>]

\* items a title search may return
ItemWithGuid(guid) == [guid |-> guid, Guid |-> <<>>, ratingKey |-> Some("k1")]

ItemWithGuidEntry(guid) ==
    [guid |-> <<"local://", "1">>, Guid |-> <<<<"imdb://", "1">>, guid>>,
     ratingKey |-> Some("k1")]

ItemTitleOnly ==
    [guid |-> <<"plex://movie/", "x">>, Guid |-> <<>>, ratingKey |-> Some("k9")]

ItemWithoutKey(guid) == [guid |-> guid, Guid |-> <<>>, ratingKey |-> None]

Library(s1, s2) == [k \in {"1", "2"} |-> IF k = "1" THEN s1 ELSE s2]

\* what the two movie sections answer to one search pass
Libraries(guid) ==
    {Library(SectionOk(<<>>), SectionOk(<<ItemTitleOnly>>)),
     Library(SectionError, SectionError),
     Library(SectionError, SectionOk(<<ItemTitleOnly, ItemWithGuid(guid)>>)),
     Library(SectionOk(<<ItemTitleOnly>>), SectionOk(<<ItemWithGuidEntry(guid)>>)),
     Library(SectionOk(<<ItemWithoutKey(guid)>>), SectionOk(<<ItemWithGuid(guid)>>)),
     Library(SectionOk(<<ItemWithGuid(guid)>>), SectionError)}

RenderOutcomes == {"fetch_error", "image_error", "ok"}

\* --------------------------------------------------- the upload task steps
ReplaceJob(js, j, j2) == (js (-) SetToBag({j})) (+) SetToBag({j2})

Start ==
    \E j \in BagToSet(jobs) :
        /\ j.pc = "Queued"
        /\ jobs' = ReplaceJob(jobs, j, StartJob(j, uploaded))
        /\ UNCHANGED <<ttl, uploadEnabled, now, cache, uploaded, postOK, last>>

Locate ==
    \E j \in BagToSet(jobs), answer \in SectionsAnswers :
        /\ j.pc = "Locating"
        /\ jobs' = ReplaceJob(jobs, j, LocateStep(j, answer))
        /\ UNCHANGED <<ttl, uploadEnabled, now, cache, uploaded, postOK, last>>

Search ==
    \E j \in BagToSet(jobs) :
        /\ j.pc = "Search"
        /\ \E library \in Libraries(GuidOf(j.id)) :
              jobs' = ReplaceJob(jobs, j, SearchStep(j, library))
        /\ UNCHANGED <<ttl, uploadEnabled, now, cache, uploaded, postOK, last>>

Sleep ==
    \E j \in BagToSet(jobs) :
        /\ j.pc = "Sleep"
        /\ jobs' = ReplaceJob(jobs, j, SleepStep(j))
        /\ UNCHANGED <<ttl, uploadEnabled, now, cache, uploaded, postOK, last>>

Retry ==
    \E j \in BagToSet(jobs) :
        /\ j.pc = "Retry"
        /\ \E library \in Libraries(GuidOf(j.id)) :
              jobs' = ReplaceJob(jobs, j, RetryStep(j, library))
        /\ UNCHANGED <<ttl, uploadEnabled, now, cache, uploaded, postOK, last>>

Render ==
    \E j \in BagToSet(jobs), outcome \in RenderOutcomes :
        /\ j.pc = "Render"
        /\ jobs' = ReplaceJob(jobs, j, RenderStep(j, outcome))
        /\ UNCHANGED <<ttl, uploadEnabled, now, cache, uploaded, postOK, last>>

Post ==
    \E j \in BagToSet(jobs), ok \in BOOLEAN :
        /\ j.pc = "Post"
        /\ jobs' = ReplaceJob(jobs, j, PostStep(j, ok))
        /\ postOK' = IF ok THEN postOK \cup {j.id} ELSE postOK
        /\ UNCHANGED <<ttl, uploadEnabled, now, cache, uploaded, last>>

Record_without_add ==
    \E j \in BagToSet(jobs) :
        /\ j.pc = "Record"
        /\ jobs' = ReplaceJob(jobs, j, RecordStep(j))
        /\ UNCHANGED <<ttl, uploadEnabled, now, cache, uploaded, postOK, last>>

Record ==
    \E j \in BagToSet(jobs) :
        /\ j.pc = "Record"
        /\ jobs' = ReplaceJob(jobs, j, RecordStep(j))
        /\ uploaded' = uploaded \cup {j.id}
        /\ UNCHANGED <<ttl, uploadEnabled, now, cache, postOK, last>>

\* metadata fetches for the catalogued scene 42 with upload enabled and the
\* cache on (the default configuration), and the tasks they enqueue running
\* concurrently
InitUpload ==
    /\ ttl = 1
    /\ uploadEnabled = TRUE
    /\ now = 0
    /\ cache = EmptyDict
    /\ uploaded = {}
    /\ postOK = {}
    /\ jobs = EmptyBag
    /\ last = NoLast

GetMetadataUpload ==
    MetadataRequest({K42}, {Outcome("transport_error", JNull),
                            Outcome("json", Body(JList(<<Scene42>>)))})

NextUpload ==
    \/ GetMetadataUpload
    \/ Start \/ Locate \/ Search \/ Sleep \/ Retry \/ Render \/ Post \/ Record

SpecUpload == InitUpload /\ [][NextUpload]_vars

\* ------------------------------------------ the query builder on filenames
MaxNameLen == 3

NameChars == {"BS", "DQ", "NL", "CR", "n"}

\* every filename of at most MaxNameLen characters over NameChars
NameInputs == UNION {[1..n -> NameChars] : n \in 0..MaxNameLen}

InitBuilder ==
    /\ ttl = 1
    /\ uploadEnabled = FALSE
    /\ now = 0
    /\ cache = EmptyDict
    /\ uploaded = {}
    /\ postOK = {}
    /\ jobs = EmptyBag
    /\ last = [op |-> "none"]

\* query_stash_by_filename up to the filter clause it hands on
BuildFilter ==
    \E filename \in NameInputs :
        /\ filename # <<>>
        /\ last' = [op |-> "filter", filename |-> filename,
                    safe_name |-> FilenameFilter(filename)[2]]
        /\ UNCHANGED <<ttl, uploadEnabled, now, cache, uploaded, postOK, jobs>>

NextBuilder == BuildFilter

SpecBuilder == InitBuilder /\ [][NextBuilder]_vars

\* ------------------------------------------- the translator on frame rates
\* frame rates of a scene's first file, in thousandths: every half frame per
\* second up to MaxHalfFps halves, the rates next to each anchor's tolerance
\* boundary, and a negative rate
MaxHalfFps == 130

FrameRates ==
    {k * 500 : k \in 0..MaxHalfFps}
    \cup {23476, 23477, 23976, 24475, 24476, 29470, 29471, 29970, 30469, 30470,
          59440, 59441, 59940, 60499, -1500}

InitFrameRate ==
    /\ ttl = 1
    /\ uploadEnabled = FALSE
    /\ now = 0
    /\ cache = EmptyDict
    /\ uploaded = {}
    /\ postOK = {}
    /\ jobs = EmptyBag
    /\ last = [op |-> "none"]

\* the loop body of parse_stash_response on scene 42 with a file at rate fr
TranslateFile ==
    \E fr \in FrameRates :
        /\ last' = [op |-> "translate", fr |-> fr,
                    item |-> TranslateScene(
                        [Scene42 EXCEPT !.files = Some(<<File(JNum(fr))>>)]).item]
        /\ UNCHANGED <<ttl, uploadEnabled, now, cache, uploaded, postOK, jobs>>

NextFrameRate == TranslateFile

SpecFrameRate == InitFrameRate /\ [][NextFrameRate]_vars

\* ------------------------------------------------------ the poster renderer
POSTER_WIDTH == 600

POSTER_HEIGHT == 900

\* source sizes (src_w, src_h) for which the double product
\* src_h * (POSTER_WIDTH / src_w) lands just below the integer it approximates,
\* among the sizes in SourceWidths \X SourceHeights (7 * ... = 1799.99...)
RoundsBelow == {<<7, 21>>}

\* scale = POSTER_WIDTH / src_w; scaled_h = int(src_h * scale): truncation of
\* the double product, which is the exact quotient rounded down except for
\* the sizes in RoundsBelow
ScaledHeight(src_w, src_h) ==
    IF <<src_w, src_h>> \in RoundsBelow
    THEN (src_h * POSTER_WIDTH) \div src_w - 1
    ELSE (src_h * POSTER_WIDTH) \div src_w

Max2(a, b) == IF a >= b THEN a ELSE b

\* the poster composed from a src_w x src_h image scaled to scaled_h rows:
\* y_offset is the row the scaled image is pasted at; top and bottom are the
\* black rows left above and below it (the paste is clipped to the canvas)
Compose(scaled_h) ==
    LET y_offset == (POSTER_HEIGHT - scaled_h) \div 2
    IN [width |-> POSTER_WIDTH, height |-> POSTER_HEIGHT,
        scaled_w |-> POSTER_WIDTH, scaled_h |-> scaled_h, y_offset |-> y_offset,
        top |-> Max2(y_offset, 0),
        bottom |-> Max2(POSTER_HEIGHT - (y_offset + scaled_h), 0)]

\* _generate_poster_bytes on what GET {stash}/scene/{id}/screenshot gave:
\* None on a failed fetch, on bytes that are not an image, and when resize is
\* asked for zero rows (ValueError); else <<the poster>>
_generate_poster_bytes(fetch) ==
    IF fetch.kind # "image" THEN None
    ELSE IF ScaledHeight(fetch.w, fetch.h) < 1 THEN None
    ELSE Some(Compose(ScaledHeight(fetch.w, fetch.h)))

\* GET /stash/scene/{scene_id}/poster
proxy_scene_poster(fetch) ==
    IF _generate_poster_bytes(fetch) = None
    THEN [op |-> "poster", fetch |-> fetch, status |-> 502,
          body |-> "Image processing error", poster |-> None]
    ELSE [op |-> "poster", fetch |-> fetch, status |-> 200,
          body |-> "image/jpeg", poster |-> _generate_poster_bytes(fetch)]

SourceWidths == {1, 7, 320, 600, 640, 1080, 1280, 1400, 1920, 3840}

SourceHeights == {1, 21, 240, 337, 480, 720, 900, 1080, 1920, 2100, 2160}

\* what the screenshot fetch gives: an error, bytes that do not decode, an image
PosterFetches ==
    {[kind |-> k, w |-> 0, h |-> 0] : k \in {"fetch_error", "not_image"}}
    \cup {[kind |-> "image", w |-> w, h |-> h] : w \in SourceWidths, h \in SourceHeights}

InitPoster ==
    /\ ttl = 1
    /\ uploadEnabled = FALSE
    /\ now = 0
    /\ cache = EmptyDict
    /\ uploaded = {}
    /\ postOK = {}
    /\ jobs = EmptyBag
    /\ last = [op |-> "none"]

PosterRequest ==
    \E fetch \in PosterFetches :
        /\ last' = proxy_scene_poster(fetch)
        /\ UNCHANGED <<ttl, uploadEnabled, now, cache, uploaded, postOK, jobs>>

NextPoster == PosterRequest

SpecPoster == InitPoster /\ [][NextPoster]_vars

\* a step of some running task
JobStep == Start \/ Locate \/ Search \/ Sleep \/ Retry \/ Render \/ Post \/ Record

\* The thread pool runs every task it was handed, and each call a task makes
\* returns or times out (timeout=10 / timeout=30 on every request, time.sleep
\* returns): a task that can take a step eventually takes one.
SpecUploadFair == SpecUpload /\ WF_vars(JobStep)

\* ------------------------------------------------- one section search pass
\* _search_pms_sections on its own: the section keys handed to it, and what
\* each section answers, an error or up to MaxItems items
MaxItems == 2

SearchItems(guid) ==
    {ItemTitleOnly, ItemWithGuid(guid),
     [ItemWithGuidEntry(guid) EXCEPT !.ratingKey = Some("k2")]}

SectionAnswers(guid) ==
    {SectionError}
    \cup {SectionOk(items) :
            items \in UNION {[1..n -> SearchItems(guid)] : n \in 0..MaxItems}}

SearchKeys == {<<"1">>, <<"1", "2">>, <<"2", "1">>}

InitSearch ==
    /\ ttl = 1
    /\ uploadEnabled = TRUE
    /\ now = 0
    /\ cache = EmptyDict
    /\ uploaded = {}
    /\ postOK = {}
    /\ jobs = EmptyBag
    /\ last = [op |-> "none"]

\* one call of _search_pms_sections for scene 42
SearchPass ==
    \E section_keys \in SearchKeys,
       s1 \in SectionAnswers(GuidOf(<<"4", "2">>)),
       s2 \in SectionAnswers(GuidOf(<<"4", "2">>)) :
        /\ last.op = "none"
        /\ last' = [op |-> "search", section_keys |-> section_keys,
                    library |-> Library(s1, s2),
                    pms_key |-> _search_pms_sections(
                        section_keys, Library(s1, s2), GuidOf(<<"4", "2">>))]
        /\ UNCHANGED <<ttl, uploadEnabled, now, cache, uploaded, postOK, jobs>>

NextSearch == SearchPass

SpecSearch == InitSearch /\ [][NextSearch]_vars

\* ------------------------------------------------ the worker processes
\* main.py starts uvicorn with workers=num_workers (default "2"): each worker
\* is a process that imports the module and has its own _cache.  A handler is
\* an "async def" that calls the lookup, and requests.post inside it, without
\* awaiting: the worker's event loop runs nothing else until the handler has
\* returned.  Here cache[w] is the _cache of worker w, and last holds
\*   loop[w]: None, or <<the lookup the event loop of w is blocked in>>
\*   done[w]: history, the outcome of the latest lookup of w
\*   latest:  history, the worker whose _cache_set ran last (0: none yet)
NUM_WORKERS == 2

Workers == 1..NUM_WORKERS

\* what the backend may answer to the query for scene 42: a failure, the
\* scene, or the scene after its title was edited
RaceOutcomes ==
    {Outcome("transport_error", JNull),
     Outcome("json", Body(JList(<<Scene42>>))),
     Outcome("json", Body(JList(<<[Scene42 EXCEPT !.title = Some("Edited")]>>)))}

InitWorkers ==
    /\ ttl = 1
    /\ uploadEnabled = FALSE
    /\ now = 0
    /\ cache = [w \in Workers |-> EmptyDict]
    /\ uploaded = {}
    /\ postOK = {}
    /\ jobs = EmptyBag
    /\ last = [loop |-> [w \in Workers |-> None],
               done |-> [w \in Workers |-> None],
               latest |-> 0]

\* worker w starts GET /library/metadata/<K42>: _cache_get, and on a miss the
\* POST to the backend is sent and the event loop of w blocks in it
BeginLookup ==
    \E w \in Workers :
        /\ last.loop[w] = None
        /\ LET g == _cache_get(cache[w], CacheKey(IdFilter(<<"4", "2">>)), now, ttl)
               others == {v \in Workers \ {w} : last.loop[v] # None}
           IN /\ cache' = [cache EXCEPT ![w] = g.cache]
              /\ last' =
                   IF g.value # None
                   THEN [last EXCEPT !.done[w] =
                            Some([doc |-> g.value, hit |-> TRUE,
                                  stored |-> FALSE, raced |-> FALSE])]
                   ELSE [last EXCEPT
                            !.done[w] = None,
                            !.loop = [v \in Workers |->
                                        IF v = w THEN Some([raced |-> others # {}])
                                        ELSE IF v \in others THEN Some([raced |-> TRUE])
                                        ELSE None]]
        /\ UNCHANGED <<ttl, uploadEnabled, now, uploaded, postOK, jobs>>

\* the backend answers worker w: the rest of parse_stash_response runs, with
\* _cache_set on the _cache of w, and the handler returns
FinishLookup ==
    \E w \in Workers, o \in RaceOutcomes :
        /\ last.loop[w] # None
        /\ LET r == query_stash_by_ratingKey(cache[w], K42, now, ttl, o)
           IN /\ cache' = [cache EXCEPT ![w] = r.cache]
              /\ last' = [last EXCEPT
                            !.loop[w] = None,
                            !.done[w] = Some([doc |-> r.result, hit |-> FALSE,
                                              stored |-> r.stored,
                                              raced |-> last.loop[w][1].raced]),
                            !.latest = IF r.stored THEN w ELSE last.latest]
        /\ UNCHANGED <<ttl, uploadEnabled, now, uploaded, postOK, jobs>>

NextWorkers == BeginLookup \/ FinishLookup \/ Tick

SpecWorkers == InitWorkers /\ [][NextWorkers]_vars

\* =================================================================== claims

\* C1: a cached document is never changed by anything but the cache: every
\* entry still holds the document exactly as _cache_set stored it.
C1_CachedDocumentNeverMutated ==
    \A k \in DOMAIN cache : cache[k].value = cache[k].orig

\* C2: with TTL > 0, a _cache_get(f) made while the age of the latest
\* _cache_set(f, d) does not exceed TTL returns d; made once the age exceeds
\* TTL (or with no earlier set) it returns absent and leaves no entry for f.
C2_CacheRoundTrip ==
    (ttl > 0 /\ last.op = "get") =>
        IF last.key \in DOMAIN last.puts
           /\ last.at - last.puts[last.key].ts <= ttl
        THEN /\ last.value = Some(last.puts[last.key].value)
             /\ last.key \in DOMAIN cache
        ELSE /\ last.value = None
             /\ last.key \notin DOMAIN cache

\* a get that found the entry expired and evicted it
C2_Witness ==
    /\ ttl > 0
    /\ last.op = "get"
    /\ last.key \in DOMAIN last.puts
    /\ last.at - last.puts[last.key].ts > ttl
    /\ last.value = None

\* a lookup whose filter is well formed: a non-empty filename, or a rating key
\* from which the handler extracts an identifier
WellFormedLookup(l) ==
    \/ l.op = "matches" /\ l.arg # <<>>
    \/ l.op = "metadata" /\ re_search_dash_digits(l.arg) # None

\* C3: with TTL <= 0 the cache mapping stays empty, no lookup is answered from
\* the cache, and every lookup with a well-formed filter queries the backend.
C3_TtlDisablesCache ==
    ttl <= 0 =>
        /\ DOMAIN cache = {}
        /\ ~last.hit
        /\ ~last.stored
        /\ (WellFormedLookup(last) => last.queried)

\* with TTL <= 0, a lookup that was answered with a document by the backend
C3_Witness ==
    /\ ttl <= 0
    /\ last.op = "matches"
    /\ last.status = "doc"
    /\ last.queried

\* the first item's title, "" when the item has none
FirstTitle(body) ==
    IF body = None THEN ""
    ELSE IF body[1].Metadata = <<>> THEN ""
    ELSE IF "title" \notin DOMAIN body[1].Metadata[1] THEN ""
    ELSE body[1].Metadata[1]["title"][1]

\* C7 as stated: a GET /library/metadata/{ratingKey} enqueues exactly one
\* task, keyed by the digit suffix of ratingKey, when upload is enabled and
\* the lookup found a match, and none otherwise.
C7_OneJobPerMatch ==
    last.op = "metadata" =>
        IF uploadEnabled /\ last.status = "doc"
        THEN /\ Len(last.enq) = 1
             /\ Some(last.enq[1].id) = re_search_dash_digits(last.arg)
        ELSE last.enq = <<>>

\* in Spec a step that leaves the clock alone and ends with a metadata
\* response on record is a GetMetadata step
IsGetMetadataStep == now' = now /\ last'.op = "metadata"

\* C7 amended: every GetMetadata step adds exactly one task, not yet started
\* and keyed by the digit suffix the lookup extracted from ratingKey, when
\* upload is enabled, the lookup found a match and the first matched item has
\* a non-empty title; otherwise it leaves the tasks as they are.
C7_OneJobPerTitledMatch ==
    [][IsGetMetadataStep =>
        IF uploadEnabled /\ last'.status = "doc" /\ FirstTitle(last'.body) # ""
        THEN \E j \in BagToSet(jobs') :
                /\ jobs' = jobs (+) SetToBag({j})
                /\ Some(j.id) = re_search_dash_digits(last'.arg)
                /\ j.title = FirstTitle(last'.body)
                /\ j.pc = "Queued"
        ELSE jobs' = jobs]_vars

\* upload enabled, a titled match, and its task waiting in the queue
C7_Witness ==
    /\ uploadEnabled
    /\ last.op = "metadata"
    /\ last.status = "doc"
    /\ Len(last.enq) = 1
    /\ \E j \in BagToSet(jobs) : j.id = <<"4", "2">> /\ j.pc = "Queued"

\* C9: whatever the backend does, a lookup handler returns a document or the
\* empty envelope; no exception escapes it.
C9_NoUnhandledFault == last.status # "fault"

\* the digits after the last "-" when the string ends in "-<digits>"
DigitSuffix(s) ==
    LET starts == {i \in 1..(Len(s) - 1) :
                      s[i] = "-" /\ \A k \in (i + 1)..Len(s) : s[k] \in Digits}
    IN IF starts = {} THEN None
       ELSE LET i == CHOOSE x \in starts : \A y \in starts : x <= y
            IN Some(SubSeq(s, i + 1, Len(s)))

\* C10: a rating key that does not end in "-<digits>" causes no backend
\* query, no cache access and no task, and is answered with the empty
\* envelope; one that does is looked up under exactly its digit suffix.
C10_RatingKeySuffix ==
    last.op = "metadata" =>
        IF DigitSuffix(last.arg) = None
        THEN /\ ~last.queried
             /\ last.key = <<>>
             /\ ~last.hit
             /\ ~last.stored
             /\ last.enq = <<>>
             /\ last.status = "empty"
        ELSE last.key = CacheKey(IdFilter(DigitSuffix(last.arg)[1]))

\* the tasks in existence
Jobs == BagToSet(jobs)

HasEvent(j, name) == \E i \in 1..Len(j.log) : j.log[i].ev = name

\* C4: a task that found its identifier in _uploaded_posters when it started
\* is in Skip and has made no call at all: no section listing, no search, no
\* screenshot fetch, no poster upload (and no sleep).
C4_SkipMakesNoCalls ==
    \A j \in Jobs : j.inRecord => j.pc = "Skip" /\ j.log = <<>>

\* a task skipped after an earlier task recorded the identifier
C4_Witness ==
    \E j \in Jobs : j.pc = "Skip" /\ j.inRecord /\ j.id \in uploaded

\* C5: _uploaded_posters never loses an identifier, holds only identifiers
\* whose poster POST has succeeded, and no task in Failed has added to it.
C5_RecordOnlyAfterSuccessfulPost ==
    [][/\ uploaded \subseteq uploaded'
       /\ uploaded' \subseteq postOK'
       /\ \A j \in BagToSet(jobs') : j.pc = "Failed" => ~HasEvent(j, "add")]_vars

\* the identifier recorded by one task while another task's upload failed
C5_Witness ==
    /\ <<"4", "2">> \in uploaded
    /\ \E j \in Jobs : j.pc = "Done"
    /\ \E j \in Jobs : j.pc = "Failed" /\ HasEvent(j, "post")

\* the searches and sleeps of a task, in order
Waits(j) ==
    SelectSeq(j.log, LAMBDA e : e.ev \in {"search_hit", "search_miss", "sleep"})

\* k times: a search that misses, then a sleep of 5
RECURSIVE MissSleep(_)
MissSleep(k) ==
    IF k = 0 THEN <<>>
    ELSE <<Ev("search_miss", 0), Ev("sleep", 5)>> \o MissSleep(k - 1)

\* the first search and 8 retries all missing: 9 searches, 8 sleeps of 5
NeverFound == MissSleep(8) \o <<Ev("search_miss", 0)>>

IsPrefix(p, q) == Len(p) <= Len(q) /\ SubSeq(q, 1, Len(p)) = p

\* C6: once the first search has missed, the task sleeps 5 and retries the
\* search at most 8 times with a sleep of 5 between attempts and none after
\* the last; it stops searching at the first hit, goes on to the poster only
\* after a hit, and ends in Failed with no screenshot fetch and no upload
\* exactly when all 8 retries have missed.
C6_RetryLoop ==
    \A j \in Jobs :
        LET w == Waits(j)
        IN (w # <<>> /\ w[1].ev = "search_miss") =>
            /\ \/ IsPrefix(w, NeverFound)
               \/ \E k \in 1..8 : w = MissSleep(k) \o <<Ev("search_hit", 0)>>
            /\ j.pc \in {"Render", "Post", "Record", "Done"} => HasEvent(j, "search_hit")
            /\ HasEvent(j, "screenshot") => HasEvent(j, "search_hit")
            /\ (j.pc = "Failed" /\ ~HasEvent(j, "search_hit")) =>
                   /\ w = NeverFound
                   /\ ~HasEvent(j, "screenshot")
                   /\ ~HasEvent(j, "post")

\* a task that failed after the first search and all 8 retries missed
C6_Witness ==
    \E j \in Jobs : j.pc = "Failed" /\ Waits(j) = NeverFound

\* C8: the response of the request that enqueues a task is on record when
\* the task is added, before the task has taken a step, and no step of any
\* task changes it: each step either adds a task that has not started,
\* carrying the response just returned, or advances one task and leaves its
\* response and the last response returned as they were.
C8_ResponseDoesNotAwaitJob ==
    [][jobs' # jobs =>
        \/ \E j \in BagToSet(jobs') :
              /\ jobs' = jobs (+) SetToBag({j})
              /\ j.pc = "Queued"
              /\ j.log = <<>>
              /\ last'.status = "doc"
              /\ j.resp = last'.body
        \/ \E j \in BagToSet(jobs), j2 \in BagToSet(jobs') :
              /\ jobs' = ReplaceJob(jobs, j, j2)
              /\ j.pc # "Queued" \/ j2.pc \in {"Skip", "Locating"}
              /\ j2.resp = j.resp
              /\ last' = last]_vars

\* two tasks enqueued with the same response, one ended in Done, one in Failed
C8_Witness ==
    \E j1 \in Jobs, j2 \in Jobs :
        /\ j1.pc = "Done"
        /\ j2.pc = "Failed"
        /\ j1.resp = j2.resp
        /\ j1.resp # None

\* C11: a request the backend answered with an empty list of scenes gets the
\* empty envelope (totalSize 0, size 0, no Metadata item) because the lookup
\* found no match: the response is not a document built from zero items, and
\* nothing is put in the cache.
C11_ZeroScenesIsNoMatch ==
    last.scenes = Some(<<>>) =>
        /\ last.status = "empty"
        /\ last.body # None
        /\ last.body[1].totalSize = 0
        /\ last.body[1].size = 0
        /\ last.body[1].Metadata = <<>>
        /\ ~last.stored
        /\ last.key \notin DOMAIN cache

\* a filename lookup with the cache on that the backend answered with no scene
C11_Witness ==
    /\ last.op = "matches"
    /\ last.queried
    /\ ttl > 0
    /\ last.scenes = Some(<<>>)

\* the tasks for scene_id that have ended in Done, with their multiplicity
DoneBag(scene_id) ==
    [j \in {x \in Jobs : x.id = scene_id /\ x.pc = "Done"} |-> jobs[j]]

\* C12: nothing keeps two tasks for one identifier apart.  Whenever two of
\* them have both ended in Done, each passed the _uploaded_posters check
\* (neither found the identifier there), each posted a poster, and the set
\* holds the identifier, once.  (That two such tasks exist is C12_Witness.)
C12_TwoUploadsOneRecord ==
    \A scene_id \in {j.id : j \in Jobs} :
        BagCardinality(DoneBag(scene_id)) >= 2 =>
            /\ \A j \in DOMAIN DoneBag(scene_id) :
                  /\ ~j.inRecord
                  /\ HasEvent(j, "post")
                  /\ j.pms_key = Some("k1")
            /\ scene_id \in uploaded
            /\ Cardinality({x \in uploaded : x = scene_id}) = 1

\* two tasks for scene 42 have both uploaded a poster
C12_Witness ==
    /\ BagCardinality(DoneBag(<<"4", "2">>)) >= 2
    /\ uploaded = {<<"4", "2">>}

\* the section searches a task has made
Searches(j) ==
    SelectSeq(j.log, LAMBDA e : e.ev \in {"search_hit", "search_miss"})

AllJobsEnded == \A j \in Jobs : j.pc \in {"Skip", "Done", "Failed"}

\* C13: every task handed to the thread pool reaches Skip, Done or Failed
\* (again and again all tasks in existence have ended, and an ended task
\* takes no further step), and no task ever makes more than 9 section
\* searches: the first one and 8 retries.
C13_JobsTerminate ==
    /\ []<>AllJobsEnded
    /\ [](\A j \in Jobs : Len(Searches(j)) <= 9)

\* a task that ran through the whole retry loop and ended
C13_Witness ==
    \E j \in Jobs : j.pc = "Failed" /\ Len(Searches(j)) = 9

\* the time a task has spent in time.sleep
RECURSIVE Waited(_)
Waited(log) ==
    IF log = <<>> THEN 0
    ELSE (IF Head(log).ev = "sleep" THEN Head(log).n ELSE 0) + Waited(Tail(log))

\* the task ended in Failed because no search found the item
FailedNotFound(j) ==
    /\ j.pc = "Failed"
    /\ HasEvent(j, "search_miss")
    /\ ~HasEvent(j, "search_hit")

\* C14: no task sleeps for more than 40 in all, and a task that ended in
\* Failed because the item was never found has slept for exactly 40.
C14_WaitBudget ==
    \A j \in Jobs :
        /\ Waited(j.log) <= 40
        /\ FailedNotFound(j) => Waited(j.log) = 40

\* a task that gave up after sleeping for the whole budget
C14_Witness ==
    \E j \in Jobs : FailedNotFound(j) /\ Waited(j.log) = 40

\* C15: every rendered poster is a 600 x 900 canvas holding the source scaled
\* to width 600 with its aspect ratio kept (the scaled height is within one
\* row of src_h * 600 / src_w) and pasted vertically centred; a 1920 x 1080
\* source is scaled to 600 x 338 and has 281 black rows above and 281 below.
C15_PosterGeometry ==
    (last.op = "poster" /\ last.poster # None) =>
        LET p == last.poster[1]
            f == last.fetch
        IN /\ p.width = 600 /\ p.height = 900 /\ p.scaled_w = 600
           /\ p.scaled_h * f.w <= f.h * 600
           /\ f.h * 600 < (p.scaled_h + 2) * f.w
           /\ p.top - p.bottom \in {-1, 0, 1}
           /\ (f.w = 1920 /\ f.h = 1080) =>
                  p.scaled_h = 338 /\ p.top = 281 /\ p.bottom = 281

\* the anchors in ascending order, with their labels
Anchors ==
    <<[at |-> 23976, label |-> PLabel(24)], [at |-> 24000, label |-> PLabel(24)],
      [at |-> 25000, label |-> NamedLabel("PAL")],
      [at |-> 29970, label |-> NamedLabel("NTSC")],
      [at |-> 30000, label |-> PLabel(30)], [at |-> 50000, label |-> PLabel(50)],
      [at |-> 59940, label |-> PLabel(60)], [at |-> 60000, label |-> PLabel(60)]>>

Distance(a, b) == IF a >= b THEN a - b ELSE b - a

\* floor(rate) of a rate in thousandths
FloorFps(fr) == fr \div 1000

\* the label of the first anchor whose distance to fr satisfies Near, else
\* the whole-number label Whole(fr)
FirstAnchorLabel(fr, Near(_), Whole(_)) ==
    LET hits == {i \in 1..Len(Anchors) : Near(Distance(fr, Anchors[i].at))}
    IN IF hits = {} THEN PLabel(Whole(fr))
       ELSE Anchors[CHOOSE i \in hits : \A k \in hits : i <= k].label

AtMostHalf(d) == d <= 500

LessThanHalf(d) == d < 500

TowardZero(fr) == IF fr >= 0 THEN fr \div 1000 ELSE -((-fr) \div 1000)

\* the videoFrameRate of the last translated item
LabelOf(l) == l.item["Media"][1].videoFrameRate

\* C16 as stated: the label of a non-zero rate is that of the first anchor
\* within 0.5 of it, the boundary included, else "<floor(rate)>p"; the rates
\* 24.5, 25.5 and 27.5 get the label of the anchor below them.
C16_FrameRateTies ==
    (last.op = "translate" /\ last.fr # 0) =>
        /\ "Media" \in DOMAIN last.item
        /\ LabelOf(last) = FirstAnchorLabel(last.fr, AtMostHalf, FloorFps)
        /\ last.fr = 24500 => LabelOf(last) = PLabel(24)
        /\ last.fr \in {25500, 27500} => LabelOf(last) = NamedLabel("PAL")

\* C16, amended: the label of a non-zero rate is that of the first anchor at
\* a distance strictly below 0.5, else "<int(rate)>p" with the rate truncated
\* toward zero; a rate exactly 0.5 from an anchor is outside its bucket, so
\* 24.5, 25.5 and 27.5 get "24p", "25p" and "27p"; a zero rate gets no label.
C16_FrameRateLabel ==
    last.op = "translate" =>
        IF last.fr = 0 THEN "Media" \notin DOMAIN last.item
        ELSE /\ "Media" \in DOMAIN last.item
             /\ LabelOf(last) = FirstAnchorLabel(last.fr, LessThanHalf, TowardZero)
             /\ last.fr = 24500 => LabelOf(last) = PLabel(24)
             /\ last.fr = 25500 => LabelOf(last) = PLabel(25)
             /\ last.fr = 27500 => LabelOf(last) = PLabel(27)
             /\ last.fr = 29470 => LabelOf(last) = PLabel(29)
             /\ last.fr = 30000 => LabelOf(last) = NamedLabel("NTSC")

\* a file at 25.5 frames per second, labelled by the fallback
C16_Witness ==
    /\ last.op = "translate"
    /\ last.fr = 25500
    /\ LabelOf(last) = PLabel(25)

\* the field names a raw excludeElements value holds
NamedIn(rawOpt) ==
    IF rawOpt = None THEN {}
    ELSE {rawOpt[1][i] : i \in 1..Len(rawOpt[1])} \ {",", "SP"}

\* C17: the document returned to a filename lookup that carries
\* excludeElements has, in no item, a field named there, and has every other
\* field of every item exactly as the translator produced it (the document
\* as _cache_set received it, for the lookups whose fingerprint is cached).
C17_OnlyNamedFieldsStripped ==
    (last.op = "matches" /\ last.status = "doc" /\ last.exclude # None) =>
        LET items == last.body[1].Metadata
        IN /\ \A i \in 1..Len(items) : DOMAIN items[i] \cap NamedIn(last.exclude) = {}
           /\ last.key \in DOMAIN cache =>
                 LET produced == cache[last.key].orig.Metadata
                 IN /\ Len(items) = Len(produced)
                    /\ \A i \in 1..Len(items) :
                          \A f \in DOMAIN produced[i] \ NamedIn(last.exclude) :
                              f \in DOMAIN items[i] /\ items[i][f] = produced[i][f]

\* how many times ch occurs in s
Count(s, ch) == Cardinality({i \in 1..Len(s) : s[i] = ch})

\* the length of the run of backslashes that ends just before position i
BackslashesBefore(s, i) ==
    LET nonBS == {k \in 1..(i - 1) : s[k] # "BS"}
    IN IF nonBS = {} THEN i - 1
       ELSE (i - 1) - (CHOOSE k \in nonBS : \A m \in nonBS : m <= k)

\* C18: in the escaped value of every filename each double quote follows an
\* odd number of backslashes, so none of them ends the string literal; every
\* backslash of the filename is doubled (the value holds two backslashes per
\* input backslash and one per escaped quote, newline and carriage return);
\* and no raw newline or carriage return is left.
C18_EscapedCannotTerminate ==
    last.op = "filter" =>
        LET in == last.filename
            out == last.safe_name
        IN /\ \A i \in 1..Len(out) :
                 out[i] = "DQ" => BackslashesBefore(out, i) % 2 = 1
           /\ Count(out, "BS") = 2 * Count(in, "BS") + Count(in, "DQ")
                                    + Count(in, "NL") + Count(in, "CR")
           /\ Count(out, "DQ") = Count(in, "DQ")
           /\ Count(out, "NL") = 0
           /\ Count(out, "CR") = 0
           /\ Len(out) = Len(in) + Count(in, "BS") + Count(in, "DQ")
                                 + Count(in, "NL") + Count(in, "CR")

\* a filename that is a backslash followed by a double quote
C18_Witness ==
    /\ last.op = "filter"
    /\ last.filename = <<"BS", "DQ">>
    /\ last.safe_name = <<"BS", "BS", "BS", "DQ">>

\* "stash-video-"
KeyPrefix == <<"s", "t", "a", "s", "h", "-", "v", "i", "d", "e", "o", "-">>

KeysDeclaring(scene_id) ==
    LET guid == <<"plex://movie/">> \o KeyPrefix \o scene_id
        items == UNION {{lib[k].items[i] : i \in 1..Len(lib[k].items)} :
                          lib \in Libraries(guid), k \in {"1", "2"}}
    IN {it.ratingKey : it \in {x \in items :
            x.guid = guid \/ \E i \in 1..Len(x.Guid) : x.Guid[i] = guid}}

\* C20: a task that goes on to render or upload a poster has, as its upload
\* target, the ratingKey of an item a section search returned whose guid or
\* one of whose Guid ids is "plex://movie/stash-video-<scene_id>"; the key
\* of an item that a search returned for its title alone is never a target.
C20_TargetDeclaresGuid ==
    \A j \in Jobs :
        /\ j.pms_key # Some("k9")
        /\ (HasEvent(j, "screenshot") \/ HasEvent(j, "post")
              \/ j.pc \in {"Render", "Post", "Record", "Done"}) =>
               /\ HasEvent(j, "search_hit")
               /\ j.pms_key # None
               /\ j.pms_key \in KeysDeclaring(j.id)

\* a task that uploaded a poster to the item declaring the guid of scene 42
C20_Witness ==
    \E j \in Jobs :
        /\ j.pc = "Done"
        /\ j.id = <<"4", "2">>
        /\ j.pms_key = Some("k1")
        /\ HasEvent(j, "search_miss")

\* the calls of a task whose first search hit, up to the record
FoundAtOnce ==
    <<Ev("sections", 0), Ev("search_hit", 0), Ev("screenshot", 0),
      Ev("post", 0), Ev("add", 0)>>

\* C21: a task whose first section search found the item makes, after that
\* search, only the screenshot fetch and the poster POST: it never sleeps and
\* never searches again, and it is at the poster as soon as the search hit.
C21_FoundAtOnceNoWait ==
    \A j \in Jobs :
        (Len(j.log) >= 2 /\ j.log[2] = Ev("search_hit", 0)) =>
            /\ IsPrefix(j.log, FoundAtOnce)
            /\ ~HasEvent(j, "sleep")
            /\ Len(Searches(j)) = 1
            /\ j.attempt = 0
            /\ j.pc \in {"Render", "Post", "Record", "Done", "Failed"}
            /\ Len(j.log) = 2 => j.pc = "Render"

\* a task that uploaded and recorded after its first search hit
C21_Witness ==
    \E j \in Jobs : j.pc = "Done" /\ j.log = FoundAtOnce

\* the step of the one task that moves from pc position from to position to
TaskMoves(from, to) ==
    \E j \in BagToSet(jobs), j2 \in BagToSet(jobs') :
        /\ j.pc = from
        /\ j2.pc = to
        /\ jobs' = ReplaceJob(jobs, j, j2)

\* C22: a task that got no movie section key from the section listing
\* (request failed, or no section of type movie) is in Failed having made
\* that one call only: no search, no sleep, no screenshot fetch, no POST;
\* and the step that ends it leaves _uploaded_posters as it was.
C22_NoSectionsFails ==
    /\ [](\A j \in Jobs :
            (HasEvent(j, "sections") /\ j.section_keys = <<>>) =>
                /\ j.pc = "Failed"
                /\ j.log = <<Ev("sections", 0)>>
                /\ j.pms_key = None)
    /\ [][TaskMoves("Locating", "Failed") => uploaded' = uploaded]_vars

\* a task that failed at the section listing while the record is empty
C22_Witness ==
    /\ uploaded = {}
    /\ \E j \in Jobs : j.pc = "Failed" /\ j.log = <<Ev("sections", 0)>>

\* C23: a task fetches the screenshot at most once; a task that ended in
\* Failed right after the screenshot fetch has made no poster POST and no
\* add, and the step that ends it leaves _uploaded_posters as it was; a task
\* is in Skip only when some task has added the identifier, so after failed
\* renders alone the next task for the identifier runs from the section
\* listing on.
C23_RenderFailureEndsJob ==
    /\ [](\A j \in Jobs :
            /\ Len(SelectSeq(j.log, LAMBDA e : e.ev = "screenshot")) <= 1
            /\ (j.pc = "Failed" /\ j.log # <<>>
                   /\ j.log[Len(j.log)].ev = "screenshot") =>
                   ~HasEvent(j, "post") /\ ~HasEvent(j, "add")
            /\ j.pc = "Skip" =>
                   \E j2 \in Jobs : j2.id = j.id /\ HasEvent(j2, "add"))
    /\ [][TaskMoves("Render", "Failed") => uploaded' = uploaded]_vars

\* a task whose render failed, and a later task for the same identifier
\* that was not skipped and went on to upload
C23_Witness ==
    \E j \in Jobs, j2 \in Jobs :
        /\ j.pc = "Failed"
        /\ j.log # <<>>
        /\ j.log[Len(j.log)].ev = "screenshot"
        /\ j2.id = j.id
        /\ j2.pc = "Done"
        /\ ~j2.inRecord

\* the items of the sections that answered, in the order of the key list
RECURSIVE Answered(_, _)
Answered(section_keys, library) ==
    IF section_keys = <<>> THEN <<>>
    ELSE (IF library[Head(section_keys)].ok
          THEN library[Head(section_keys)].items ELSE <<>>)
         \o Answered(Tail(section_keys), library)

Declares(item, guid) ==
    item.guid = guid \/ \E i \in 1..Len(item.Guid) : item.Guid[i] = guid

\* C26: a search pass returns the ratingKey of the first item declaring the
\* guid among the items of all sections that answered, taken in the order of
\* the section list, and None when no such item exists: a section whose
\* request failed contributes nothing and does not stop the pass.
C26_FailedSectionSkipped ==
    last.op = "search" =>
        LET all == Answered(last.section_keys, last.library)
            hits == {i \in 1..Len(all) : Declares(all[i], GuidOf(<<"4", "2">>))}
        IN IF hits = {} THEN last.pms_key = None
           ELSE last.pms_key =
                    all[CHOOSE i \in hits : \A k \in hits : i <= k].ratingKey

\* the first section failed and the pass returned the item of the second
C26_Witness ==
    /\ last.op = "search"
    /\ last.section_keys = <<"1", "2">>
    /\ ~last.library["1"].ok
    /\ Len(last.library["2"].items) = 2
    /\ last.library["2"].items[1] = ItemTitleOnly
    /\ last.pms_key = Some("k2")

\* a step of one of the two lookup handlers (the clock stands still in it)
HandlerStep == now' = now

\* the lookup of this step queried the backend and got no scene: transport
\* failure, unparseable or misshapen body, or an empty list of scenes
FailedLookup(l) == l.queried /\ l.scenes \in {None, Some(<<>>)}

\* C25 as stated: a lookup that ends in transport failure, an unparseable
\* response or zero scenes, and is answered with the empty envelope, leaves
\* the cache mapping unchanged.
C25_FailedLookupLeavesCache ==
    [][(HandlerStep /\ FailedLookup(last') /\ last'.status = "empty") =>
           cache' = cache]_vars

\* C25 amended: _cache_set runs only in a lookup whose backend query returned
\* at least one scene, and only such a lookup creates or re-stamps an entry;
\* a lookup that ends in transport failure, an unparseable response or zero
\* scenes writes nothing and changes the mapping at most by evicting the
\* expired entry of its own fingerprint, so that fingerprint has no entry
\* afterwards and its next lookup queries again; a lookup whose fingerprint
\* has an unexpired entry is answered from it and issues no backend query.
C25_CacheWrittenOnlyOnScenes ==
    [][HandlerStep =>
        LET l == last'
            Fresh(k) == ttl > 0 /\ k \in DOMAIN cache /\ now - cache[k].ts <= ttl
        IN /\ l.stored => l.queried /\ ~FailedLookup(l)
           /\ \A k \in DOMAIN cache' :
                 (k \notin DOMAIN cache
                    \/ cache'[k].ts # cache[k].ts
                    \/ cache'[k].orig # cache[k].orig) => l.stored /\ k = l.key
           /\ FailedLookup(l) =>
                 /\ ~l.stored
                 /\ l.key \notin DOMAIN cache'
                 /\ \/ cache' = cache
                    \/ /\ l.key \in DOMAIN cache
                       /\ now - cache[l.key].ts > ttl
                       /\ cache' = DictRemove(cache, l.key)
           /\ Fresh(l.key) <=> l.hit
           /\ l.hit => ~l.queried /\ ~l.stored]_vars

\* a lookup that failed after its fingerprint's entry had expired, while the
\* entry of another fingerprint is still held
C25_Witness ==
    /\ FailedLookup(last)
    /\ ttl = 1
    /\ now = MaxTime
    /\ last.key \notin DOMAIN cache
    /\ \E k \in DOMAIN cache : cache[k].ts = 0

\* both workers have put the document of a lookup that was in flight while
\* the other worker's lookup for the same fingerprint was in flight
BothPutConcurrently ==
    \A w \in Workers :
        /\ last.done[w] # None
        /\ last.done[w][1].stored
        /\ last.done[w][1].raced

\* C24: when two concurrent first-time lookups for one fingerprint have both
\* missed, both queried the backend and both put, the entry that remains for
\* the fingerprint is the document that was put last.
C24_LastWriterWins ==
    BothPutConcurrently =>
        \A w \in Workers :
            CacheKey(IdFilter(<<"4", "2">>)) \in DOMAIN cache[w] =>
                cache[w][CacheKey(IdFilter(<<"4", "2">>))].value
                    = last.done[last.latest][1].doc[1]

====
